---- MODULE Spec2Model ----
(***************************************************************************)
(* The auction aggregation pipeline of scrape.py: main() loads the         *)
(* locations, walks the paginated auction listing, then submits one        *)
(* process_and_write task per auction to a thread pool.  Each task runs    *)
(* fetch_auction_data (pickup-date cache, paginated item fetch, row        *)
(* building) and appends its rows to the CSV file under a lock, while      *)
(* main collects the futures as they complete.                             *)
(***************************************************************************)
EXTENDS Integers, Sequences, FiniteSets, TLC

(***************************************************************************)
(* Bounds of the model.                                                    *)
(***************************************************************************)
\* Largest number of auctions the remote listing returns.
NumAuctions == 3
\* Number of pool workers.  scrape.py:197 sets max_workers=10; the pool is
\* modelled at a reduced size so that more tasks are submitted than there
\* are workers.
PoolSize == 2
\* Number of auctions the remote listing endpoint puts on one page.
ListPageSize == 2
\* Paginated-fetch harness: most pages of a resource, most items on a page.
MaxPages == 3
MaxPageLen == 2
\* Ratio harness: largest currentBid and largest msrp of an item.
MaxBid == 2
MaxMsrp == 2
\* Most pages a loop requests from an endpoint that never serves an empty
\* page.
MaxLoop == 3

(***************************************************************************)
(* The remote data set.                                                    *)
(***************************************************************************)
Auctions == 1..NumAuctions
\* Index 0 of page_requests is the auction listing, index a the items of a.
Resources == 0..NumAuctions
ItemIds == {1, 2}
LocIds == {5, 7}
\* locationId of the auctions of the listing: two auctions out of three
\* share location 5.
ListedLoc(a) == IF a % 3 = 0 THEN 7 ELSE 5
\* /location/getAllLocations: location 7 is not in the returned list.
RemoteLocations ==
    [l \in {5} |-> [nickName |-> "Louisville", address |-> "1 Main St",
                    city |-> "Louisville", state |-> "KY", zip |-> "40202"]]
\* /item/getItemsByAuctionId: the pages of items of each auction.
RemoteItems(a) ==
    CASE a = 1 -> << <<1, 2>> >>
      [] a = 2 -> << <<1>>, <<2>> >>
      [] OTHER -> << <<1>> >>
\* The item objects behind the item ids: item 1 has no retail price.
RemotePrices ==
    [i \in ItemIds |->
        IF i = 1 THEN [id |-> i, currentBid |-> 45, msrp |-> 0]
        ELSE [id |-> i, currentBid |-> 30, msrp |-> 100]]
\* /auction/getAuctionPickupDate: the answers the endpoint can give for a
\* location during one run (the second one after the remote data changed).
PickupAnswers(loc) ==
    IF loc = 5 THEN << <<"Mon">>, <<"Mon", "Tue">> >>
    ELSE << <<"Wed">>, <<"Wed", "Thu">> >>

RECURSIVE Chunks(_, _)
\* The listing of s cut into pages of n auctions.
Chunks(s, n) ==
    IF Len(s) = 0 THEN <<>>
    ELSE IF Len(s) <= n THEN <<s>>
    ELSE <<SubSeq(s, 1, n)>> \o Chunks(SubSeq(s, n + 1, Len(s)), n)

\* /auction/getAuctions when n auctions are open.
RemoteListing(n) == Chunks([i \in 1..n |-> i], ListPageSize)

\* What a paginated endpoint answers for page p: nothing beyond its data.
PageAt(pages, p) == IF p \in 1..Len(pages) THEN pages[p] ELSE <<>>

RECURSIVE Flatten(_)
Flatten(pages) ==
    IF Len(pages) = 0 THEN <<>> ELSE Head(pages) \o Flatten(Tail(pages))

RECURSIVE JoinDates(_)
\* "; ".join(pickup_dates)
JoinDates(d) ==
    IF Len(d) = 0 THEN ""
    ELSE IF Len(d) = 1 THEN d[1]
    ELSE d[1] \o "; " \o JoinDates(Tail(d))

RECURSIVE NonEmptyPrefix(_)
\* The pages an endpoint serves before its first empty page.
NonEmptyPrefix(pages) ==
    IF Len(pages) = 0 \/ Len(Head(pages)) = 0 THEN <<>>
    ELSE <<Head(pages)>> \o NonEmptyPrefix(Tail(pages))

VARIABLES
    remote_auctions,     \* pages served by the auction listing endpoint
    remote_items,        \* auction id -> pages served by the item endpoint
    remote_prices,       \* item id -> the item object the endpoint serves
    auction_location,    \* auction id -> locationId of the listed auction
    remote_endless,      \* resources that never serve an empty page
    remote_stable,       \* TRUE: the remote data does not change in this run
    csv_exists,          \* the CSV file existed before the run
    mainPc,              \* position of main()
    outcome,             \* "running", "ok" (total printed) or "error" (raised)
    location_data,       \* main: id -> location
    write_header,        \* main: write_header
    page,                \* main: page of the listing loop
    all_auctions,        \* main: all_auctions
    futures,             \* main: auctions submitted so far, in order
    collected,           \* futures yielded by as_completed, in order
    total_items,         \* main: total_items
    pickup_dates_cache,  \* main: pickup_dates_cache, location id -> dates
    lock,                \* main: lock; 0 when free, else the holding task
    sink,                \* lines of the CSV file
    tpc,                 \* task: position of process_and_write(a)
    t_fetched,           \* task: value returned by get_auction_pickup_dates
    t_pickup,            \* task: pickup_dates
    t_page,              \* task: page of get_all_items_for_auction
    t_items,             \* task: all_items
    t_rows,              \* task: rows
    t_written,           \* task: rows written so far by the writerow loop
    pickup_fetches,      \* history: location id -> fetches that returned
    page_requests,       \* history: resource -> page numbers requested
    acquired,            \* history: tasks in the order they took the lock
    dashPc,              \* dashboard: position between scrape and display
    data                 \* dashboard: rows of the DataFrame

mainVars == <<mainPc, outcome, location_data, write_header, page, all_auctions,
              futures, collected, total_items>>
taskVars == <<tpc, t_fetched, t_pickup, t_page, t_items, t_rows, t_written>>
remoteVars == <<remote_auctions, remote_items, remote_prices,
                auction_location, remote_endless, remote_stable, csv_exists>>
dashVars == <<dashPc, data>>
vars == <<remoteVars, mainVars, taskVars, pickup_dates_cache, lock, sink,
          pickup_fetches, page_requests, acquired, dashVars>>

\* What the endpoint of resource r answers for page p of its pages: a
\* resource that never serves an empty page answers every request with
\* one entry.
Served(r, pages, p) ==
    IF r \in remote_endless THEN <<1>> ELSE PageAt(pages, p)

\* The model follows a loop over a resource that never serves an empty page
\* for MaxLoop requests.
WithinLoopBound(r, p) == r \in remote_endless => p <= MaxLoop

\* auction.get("locationId")
AuctionLoc(a) == auction_location[a]

NoDates == <<>>

\* Lines of the CSV file that are not rows of this run: the header written by
\* writeheader() and what an existing file already holds.
HeaderLine == [kind |-> "header"]
OldLine == [kind |-> "old"]

\* "page = 1" of get_all_items_for_auction
FirstPage == 1

ListFirstPage_zero == 1 - 1

\* "page = 1" of the listing loop of main
ListFirstPage == 1

\* A task is executing on a pool worker.
Running(a) == tpc[a] \notin {"unsubmitted", "queued", "done", "failed"}
Finished(a) == tpc[a] \in {"done", "failed"}
RunningTasks == {a \in Auctions : Running(a)}

SeqToSet(s) == {s[i] : i \in 1..Len(s)}

InitLocal ==
    /\ mainPc = "locations"
    /\ outcome = "running"
    /\ location_data = <<>>
    /\ write_header = FALSE
    /\ page = ListFirstPage
    /\ all_auctions = <<>>
    /\ futures = <<>>
    /\ collected = <<>>
    /\ total_items = 0
    /\ pickup_dates_cache = <<>>
    /\ lock = 0
    /\ tpc = [a \in Auctions |-> "unsubmitted"]
    /\ t_fetched = [a \in Auctions |-> NoDates]
    /\ t_pickup = [a \in Auctions |-> NoDates]
    /\ t_page = [a \in Auctions |-> FirstPage]
    /\ t_items = [a \in Auctions |-> <<>>]
    /\ t_rows = [a \in Auctions |-> <<>>]
    /\ t_written = [a \in Auctions |-> 0]
    /\ pickup_fetches = [l \in LocIds |-> 0]
    /\ page_requests = [r \in Resources |-> <<>>]
    /\ acquired = <<>>
    /\ dashPc = "idle"
    /\ data = <<>>

\* The remote data set of a run and the file main() finds.
InitRemote ==
    /\ \E n \in 0..NumAuctions : remote_auctions = RemoteListing(n)
    /\ remote_items = [a \in Auctions |-> RemoteItems(a)]
    /\ remote_prices = RemotePrices
    /\ auction_location = [a \in Auctions |-> ListedLoc(a)]
    /\ remote_endless = {}
    /\ csv_exists \in BOOLEAN
    /\ sink = IF csv_exists THEN <<OldLine>> ELSE <<>>

\* A run against a remote data set that does not change while it runs.
Init ==
    /\ InitRemote
    /\ remote_stable = TRUE
    /\ InitLocal

\* A run in which every listed auction is at location 5.
InitOneLoc ==
    /\ \E n \in 0..NumAuctions : remote_auctions = RemoteListing(n)
    /\ remote_items = [a \in Auctions |-> RemoteItems(a)]
    /\ remote_prices = RemotePrices
    /\ auction_location = [a \in Auctions |-> 5]
    /\ remote_endless = {}
    /\ csv_exists = FALSE
    /\ sink = <<>>
    /\ remote_stable = TRUE
    /\ InitLocal

\* A run during which the remote pickup dates may change.
InitDrift ==
    /\ InitRemote
    /\ remote_stable = FALSE
    /\ InitLocal

(***************************************************************************)
(* main()                                                                  *)
(***************************************************************************)
MainRaise_swallowed ==
    /\ mainPc' = "done"
    /\ outcome' = "ok"

\* main raises: nothing after the raise runs, outcome is the error.
MainRaise ==
    /\ mainPc' = "done"
    /\ outcome' = "error"

\* get_all_locations returns.
LoadLocations ==
    /\ mainPc = "locations"
    /\ location_data' = RemoteLocations
    /\ mainPc' = "check_file"
    /\ UNCHANGED <<outcome, write_header, page, all_auctions, futures,
                   collected, total_items>>
    /\ UNCHANGED <<dashVars, remoteVars, taskVars, pickup_dates_cache, lock,
                   sink, pickup_fetches, page_requests, acquired>>

\* get_all_locations raises (raise_for_status or a transport error).
LoadLocationsFail ==
    /\ mainPc = "locations"
    /\ MainRaise
    /\ UNCHANGED <<location_data, write_header, page, all_auctions, futures,
                   collected, total_items>>
    /\ UNCHANGED <<dashVars, remoteVars, taskVars, pickup_dates_cache, lock,
                   sink, pickup_fetches, page_requests, acquired>>

HeaderNeeded_always == TRUE

\* write_header stays False unless open(csv_filename, 'r') raises
\* FileNotFoundError.
HeaderNeeded == ~csv_exists

\* The try/except around open(csv_filename, 'r').
CheckFile ==
    /\ mainPc = "check_file"
    /\ write_header' = HeaderNeeded
    /\ mainPc' = "listing"
    /\ UNCHANGED <<outcome, location_data, page, all_auctions, futures,
                   collected, total_items>>
    /\ UNCHANGED <<dashVars, remoteVars, taskVars, pickup_dates_cache, lock,
                   sink, pickup_fetches, page_requests, acquired>>

\* One pass of the listing loop: get_auctions(page) returns.
ListPage ==
    /\ mainPc = "listing"
    /\ WithinLoopBound(0, page)
    /\ LET auctions == Served(0, remote_auctions, page) IN
        /\ page_requests' = [page_requests EXCEPT ![0] = Append(@, page)]
        /\ IF Len(auctions) = 0
           THEN /\ mainPc' = "open"
                /\ UNCHANGED <<all_auctions, page>>
           ELSE /\ all_auctions' = all_auctions \o auctions
                /\ page' = page + 1
                /\ UNCHANGED mainPc
    /\ UNCHANGED <<outcome, location_data, write_header, futures, collected,
                   total_items>>
    /\ UNCHANGED <<dashVars, remoteVars, taskVars, pickup_dates_cache, lock,
                   sink, pickup_fetches, acquired>>

\* One pass of the listing loop: get_auctions(page) raises.
ListPageFail ==
    /\ mainPc = "listing"
    /\ WithinLoopBound(0, page)
    /\ page_requests' = [page_requests EXCEPT ![0] = Append(@, page)]
    /\ MainRaise
    /\ UNCHANGED <<location_data, write_header, page, all_auctions, futures,
                   collected, total_items>>
    /\ UNCHANGED <<dashVars, remoteVars, taskVars, pickup_dates_cache, lock,
                   sink, pickup_fetches, acquired>>

\* open(csv_filename, 'a'), DictWriter, writeheader() if write_header.
OpenCsv ==
    /\ mainPc = "open"
    /\ sink' = IF write_header THEN Append(sink, HeaderLine) ELSE sink
    /\ mainPc' = IF Len(all_auctions) = 0 THEN "collect" ELSE "submit"
    /\ UNCHANGED <<outcome, location_data, write_header, page, all_auctions,
                   futures, collected, total_items>>
    /\ UNCHANGED <<dashVars, remoteVars, taskVars, pickup_dates_cache, lock,
                   pickup_fetches, page_requests, acquired>>

SubmitReached_inLoop == mainPc \in {"listing", "submit"}

\* main has reached the list comprehension that submits the tasks: the
\* listing loop has ended and the file is open.
SubmitReached == mainPc = "submit"

NextToSubmit_first == all_auctions[1]

\* "for a in all_auctions": the auction of the next submit.
NextToSubmit == all_auctions[Len(futures) + 1]

\* executor.submit(process_and_write, a) for the next auction of all_auctions.
Submit ==
    /\ SubmitReached
    /\ Len(futures) < Len(all_auctions)
    /\ LET a == NextToSubmit IN
        /\ futures' = Append(futures, a)
        /\ tpc' = [tpc EXCEPT ![a] = "queued"]
    /\ mainPc' = IF Len(futures') = Len(all_auctions) THEN "collect" ELSE "submit"
    /\ UNCHANGED <<outcome, location_data, write_header, page, all_auctions,
                   collected, total_items>>
    /\ UNCHANGED <<t_fetched, t_pickup, t_page, t_items, t_rows, t_written>>
    /\ UNCHANGED <<dashVars, remoteVars, pickup_dates_cache, lock, sink,
                   pickup_fetches, page_requests, acquired>>

\* as_completed yields the future of a; future.result() returns its count.
Collect(a) ==
    /\ mainPc = "collect"
    /\ a \in SeqToSet(futures) \ SeqToSet(collected)
    /\ tpc[a] = "done"
    /\ collected' = Append(collected, a)
    /\ total_items' = total_items + Len(t_rows[a])
    /\ UNCHANGED <<mainPc, outcome, location_data, write_header, page,
                   all_auctions, futures>>
    /\ UNCHANGED <<dashVars, remoteVars, taskVars, pickup_dates_cache, lock,
                   sink, pickup_fetches, page_requests, acquired>>

\* as_completed yields the future of a; future.result() re-raises the task's
\* exception, which leaves the loop and enters the executor's __exit__.
CollectFailed(a) ==
    /\ mainPc = "collect"
    /\ a \in SeqToSet(futures) \ SeqToSet(collected)
    /\ tpc[a] = "failed"
    /\ collected' = Append(collected, a)
    /\ mainPc' = "shutdown"
    /\ UNCHANGED <<outcome, location_data, write_header, page, all_auctions,
                   futures, total_items>>
    /\ UNCHANGED <<dashVars, remoteVars, taskVars, pickup_dates_cache, lock,
                   sink, pickup_fetches, page_requests, acquired>>

ShutdownWaited_nowait == TRUE

\* shutdown(wait=True) has joined the workers: every submitted task has run.
ShutdownWaited == \A a \in SeqToSet(futures) : Finished(a)

\* The exception leaves "with ThreadPoolExecutor": __exit__ is
\* shutdown(wait=True), which returns once every submitted task has run;
\* then the file is closed and main raises.
Shutdown ==
    /\ mainPc = "shutdown"
    /\ ShutdownWaited
    /\ MainRaise
    /\ UNCHANGED <<location_data, write_header, page, all_auctions, futures,
                   collected, total_items>>
    /\ UNCHANGED <<dashVars, remoteVars, taskVars, pickup_dates_cache, lock,
                   sink, pickup_fetches, page_requests, acquired>>

AllCollected_some == collected # <<>>

\* "for future in as_completed(futures)" has yielded every future.
AllCollected == SeqToSet(collected) = SeqToSet(futures)

\* Every future was collected: the executor and the file are closed and the
\* total is printed.
Report ==
    /\ mainPc = "collect"
    /\ AllCollected
    /\ mainPc' = "done"
    /\ outcome' = "ok"
    /\ UNCHANGED <<location_data, write_header, page, all_auctions, futures,
                   collected, total_items>>
    /\ UNCHANGED <<dashVars, remoteVars, taskVars, pickup_dates_cache, lock,
                   sink, pickup_fetches, page_requests, acquired>>

(***************************************************************************)
(* The thread pool: ThreadPoolExecutor(max_workers=...)                    *)
(***************************************************************************)
PoolHasIdleWorker_unbounded == TRUE

\* A worker is free to take a work item: at most PoolSize tasks execute.
PoolHasIdleWorker == Cardinality(RunningTasks) < PoolSize

\* The work queue is first-in first-out: a is the oldest queued work item.
OldestQueued(a) ==
    \E i \in 1..Len(futures) :
        /\ futures[i] = a
        /\ tpc[a] = "queued"
        /\ \A j \in 1..(i - 1) : tpc[futures[j]] # "queued"

\* A worker takes the work item of a and calls process_and_write(a).
StartTask(a) ==
    /\ OldestQueued(a)
    /\ PoolHasIdleWorker
    /\ tpc' = [tpc EXCEPT ![a] = "check"]
    /\ UNCHANGED <<t_fetched, t_pickup, t_page, t_items, t_rows, t_written>>
    /\ UNCHANGED <<dashVars, remoteVars, mainVars, pickup_dates_cache, lock,
                   sink, pickup_fetches, page_requests, acquired>>

(***************************************************************************)
(* fetch_auction_data(session, auction, location_data, pickup_dates_cache) *)
(***************************************************************************)
TaskRaise_retry(a) == tpc' = tpc

\* The exception of a fetch leaves process_and_write: the future fails.
TaskRaise(a) == tpc' = [tpc EXCEPT ![a] = "failed"]

CacheMiss_always(loc) == TRUE

\* "loc_id not in pickup_dates_cache"
CacheMiss(loc) == loc \notin DOMAIN pickup_dates_cache

\* The test of "if loc_id not in pickup_dates_cache".
CheckCache(a) ==
    /\ tpc[a] = "check"
    /\ tpc' = [tpc EXCEPT ![a] =
                  IF CacheMiss(AuctionLoc(a)) THEN "fetch" ELSE "read"]
    /\ UNCHANGED <<t_fetched, t_pickup, t_page, t_items, t_rows, t_written>>
    /\ UNCHANGED <<dashVars, remoteVars, mainVars, pickup_dates_cache, lock,
                   sink, pickup_fetches, page_requests, acquired>>

\* The answers the pickup-date endpoint can give to one request.
PickupResponses(loc) ==
    IF remote_stable THEN {PickupAnswers(loc)[1]}
    ELSE {PickupAnswers(loc)[i] : i \in 1..Len(PickupAnswers(loc))}

\* get_auction_pickup_dates(session, loc_id) returns.
FetchPickup(a) ==
    /\ tpc[a] = "fetch"
    /\ \E v \in PickupResponses(AuctionLoc(a)) :
           t_fetched' = [t_fetched EXCEPT ![a] = v]
    /\ pickup_fetches' = [pickup_fetches EXCEPT ![AuctionLoc(a)] = @ + 1]
    /\ tpc' = [tpc EXCEPT ![a] = "store"]
    /\ UNCHANGED <<t_pickup, t_page, t_items, t_rows, t_written>>
    /\ UNCHANGED <<dashVars, remoteVars, mainVars, pickup_dates_cache, lock,
                   sink, page_requests, acquired>>

FetchPickupFail_stores(a) ==
    /\ tpc[a] = "fetch"
    /\ TaskRaise(a)
    /\ pickup_dates_cache' = [l \in {AuctionLoc(a)} |-> NoDates]
    /\ UNCHANGED <<t_fetched, t_pickup, t_page, t_items, t_rows, t_written>>
    /\ UNCHANGED <<dashVars, remoteVars, mainVars, lock, sink, pickup_fetches,
                   page_requests, acquired>>

\* get_auction_pickup_dates(session, loc_id) raises.
FetchPickupFail(a) ==
    /\ tpc[a] = "fetch"
    /\ TaskRaise(a)
    /\ UNCHANGED <<t_fetched, t_pickup, t_page, t_items, t_rows, t_written>>
    /\ UNCHANGED <<dashVars, remoteVars, mainVars, pickup_dates_cache, lock,
                   sink, pickup_fetches, page_requests, acquired>>

CachePut_evict(cache, loc, v) == [l \in {loc} |-> v]

CachePut_allkeys(cache, loc, v) == [l \in LocIds |-> v]

\* cache[loc] = v on a dict: the key is added or its value replaced.
CachePut(cache, loc, v) ==
    [l \in (DOMAIN cache) \cup {loc} |-> IF l = loc THEN v ELSE cache[l]]

\* "pickup_dates_cache[loc_id] = ..." with the fetched value.
StorePickup(a) ==
    /\ tpc[a] = "store"
    /\ pickup_dates_cache' =
           CachePut(pickup_dates_cache, AuctionLoc(a), t_fetched[a])
    /\ tpc' = [tpc EXCEPT ![a] = "read"]
    /\ UNCHANGED <<t_fetched, t_pickup, t_page, t_items, t_rows, t_written>>
    /\ UNCHANGED <<dashVars, remoteVars, mainVars, lock, sink, pickup_fetches,
                   page_requests, acquired>>

LocationsAfterGet_setdefault(loc) ==
    [l \in (DOMAIN location_data) \cup {loc} |->
        IF l \in DOMAIN location_data THEN location_data[l]
        ELSE [nickName |-> ""]]

\* The location map after "location_data.get(loc_id, {})": get does not
\* insert the default.
LocationsAfterGet(loc) == location_data

\* "pickup_dates = pickup_dates_cache[loc_id]", then the lookup of loc_info
\* in location_data.
ReadPickup(a) ==
    /\ tpc[a] = "read"
    /\ t_pickup' = [t_pickup EXCEPT ![a] = pickup_dates_cache[AuctionLoc(a)]]
    /\ location_data' = LocationsAfterGet(AuctionLoc(a))
    /\ tpc' = [tpc EXCEPT ![a] = "items"]
    /\ UNCHANGED <<t_fetched, t_page, t_items, t_rows, t_written>>
    /\ UNCHANGED <<mainPc, outcome, write_header, page, all_auctions, futures,
                   collected, total_items>>
    /\ UNCHANGED <<dashVars, remoteVars, pickup_dates_cache, lock, sink,
                   pickup_fetches, page_requests, acquired>>

LocField_none(loc, k) ==
    IF loc \in DOMAIN location_data THEN location_data[loc][k] ELSE "None"

\* location_data.get(loc_id, {}).get(k, "")
LocField(loc, k) ==
    IF loc \in DOMAIN location_data
    THEN IF k \in DOMAIN location_data[loc] THEN location_data[loc][k] ELSE ""
    ELSE ""

\* loc_info.get("nickName", "")
LocNickname(loc) == LocField(loc, "nickName")

\* item.get(k, d)
ItemGet(item, k, d) ==
    IF k \in DOMAIN remote_prices[item] THEN remote_prices[item][k] ELSE d

\* "current_bid / msrp if msrp > 0 else 0": the quotient is kept exact, as
\* <<numerator, denominator>>; a denominator 0 is a division by zero.
Ratio(current_bid, msrp) ==
    IF msrp > 0 THEN <<current_bid, msrp>> ELSE <<0, 1>>

\* The row dict built for one item.
Row(a, item, pickup) ==
    [kind |-> "row",
     auction_id |-> a,
     auction_location_id |-> AuctionLoc(a),
     auction_location_nickname |-> LocNickname(AuctionLoc(a)),
     auction_location_address |-> LocField(AuctionLoc(a), "address"),
     auction_location_city |-> LocField(AuctionLoc(a), "city"),
     auction_location_state |-> LocField(AuctionLoc(a), "state"),
     auction_location_zip |-> LocField(AuctionLoc(a), "zip"),
     pickup_dates |-> JoinDates(pickup),
     item_id |-> item,
     current_bid |-> ItemGet(item, "currentBid", 0),
     msrp |-> ItemGet(item, "msrp", 0),
     ratio_bid_to_msrp |->
         Ratio(ItemGet(item, "currentBid", 0), ItemGet(item, "msrp", 0))]

BuildRows_skip(a, items, pickup) ==
    [i \in 1..(Len(items) - 1) |-> Row(a, items[i + 1], pickup)]

\* "for item in all_items: ... rows.append(row)"
BuildRows(a, items, pickup) ==
    [i \in 1..Len(items) |-> Row(a, items[i], pickup)]

ExtendItems_replace(all, items) == items

\* all_items.extend(items)
ExtendItems(all, items) == all \o items

NoItems_short(items) == Len(items) < MaxPageLen

\* "if not items"
NoItems(items) == Len(items) = 0

\* One pass of the loop of get_all_items_for_auction: get_items_by_page
\* returns.  On the empty page the loop ends and the rows are built.
ItemsPage(a) ==
    /\ tpc[a] = "items"
    /\ WithinLoopBound(a, t_page[a])
    /\ LET items == Served(a, remote_items[a], t_page[a]) IN
        /\ page_requests' = [page_requests EXCEPT ![a] = Append(@, t_page[a])]
        /\ IF NoItems(items)
           THEN /\ t_rows' = [t_rows EXCEPT ![a] =
                                 BuildRows(a, t_items[a], t_pickup[a])]
                /\ tpc' = [tpc EXCEPT ![a] = "lock"]
                /\ UNCHANGED <<t_items, t_page>>
           ELSE /\ t_items' = [t_items EXCEPT ![a] = ExtendItems(@, items)]
                /\ t_page' = [t_page EXCEPT ![a] = @ + 1]
                /\ UNCHANGED <<t_rows, tpc>>
    /\ UNCHANGED <<t_fetched, t_pickup, t_written>>
    /\ UNCHANGED <<dashVars, remoteVars, mainVars, pickup_dates_cache, lock,
                   sink, pickup_fetches, acquired>>

\* One pass of the loop of get_all_items_for_auction: get_items_by_page
\* raises.
ItemsPageFail(a) ==
    /\ tpc[a] = "items"
    /\ WithinLoopBound(a, t_page[a])
    /\ page_requests' = [page_requests EXCEPT ![a] = Append(@, t_page[a])]
    /\ TaskRaise(a)
    /\ UNCHANGED <<t_fetched, t_pickup, t_page, t_items, t_rows, t_written>>
    /\ UNCHANGED <<dashVars, remoteVars, mainVars, pickup_dates_cache, lock,
                   sink, pickup_fetches, acquired>>

(***************************************************************************)
(* process_and_write(auction): the rows go to the file under the lock.     *)
(***************************************************************************)
LockFree_unguarded == TRUE

\* threading.Lock: acquire blocks while another task holds the lock.
LockFree == lock = 0

\* "with lock:" is entered.
AcquireLock(a) ==
    /\ tpc[a] = "lock"
    /\ LockFree
    /\ lock' = a
    /\ acquired' = Append(acquired, a)
    /\ tpc' = [tpc EXCEPT ![a] = "write"]
    /\ UNCHANGED <<t_fetched, t_pickup, t_page, t_items, t_rows, t_written>>
    /\ UNCHANGED <<dashVars, remoteVars, mainVars, pickup_dates_cache, sink,
                   pickup_fetches, page_requests>>

WriteLoopDone_first(a) == t_written[a] >= 1 \/ Len(t_rows[a]) = 0

\* "for r in rows" has passed over every row.
WriteLoopDone(a) == t_written[a] = Len(t_rows[a])

\* One pass of "for r in rows: writer.writerow(r)".
WriteRow(a) ==
    /\ tpc[a] = "write"
    /\ ~WriteLoopDone(a)
    /\ sink' = Append(sink, t_rows[a][t_written[a] + 1])
    /\ t_written' = [t_written EXCEPT ![a] = @ + 1]
    /\ UNCHANGED <<tpc, t_fetched, t_pickup, t_page, t_items, t_rows>>
    /\ UNCHANGED <<dashVars, remoteVars, mainVars, pickup_dates_cache, lock,
                   pickup_fetches, page_requests, acquired>>

LockAfterExit_held(a) == a

\* The lock once the with block of task a is left, by return or by an
\* exception: released.
LockAfterExit(a) == 0

\* "return len(rows)" leaves the with block: the lock is released.
ReleaseLock(a) ==
    /\ tpc[a] = "write"
    /\ WriteLoopDone(a)
    /\ lock' = LockAfterExit(a)
    /\ tpc' = [tpc EXCEPT ![a] = "return"]
    /\ UNCHANGED <<t_fetched, t_pickup, t_page, t_items, t_rows, t_written>>
    /\ UNCHANGED <<dashVars, remoteVars, mainVars, pickup_dates_cache, sink,
                   pickup_fetches, page_requests, acquired>>

\* writer.writerow(r) raises: the exception leaves the with block, which
\* releases the lock, and process_and_write.
WriteRowFail(a) ==
    /\ tpc[a] = "write"
    /\ ~WriteLoopDone(a)
    /\ lock' = LockAfterExit(a)
    /\ TaskRaise(a)
    /\ UNCHANGED <<t_fetched, t_pickup, t_page, t_items, t_rows, t_written>>
    /\ UNCHANGED <<dashVars, remoteVars, mainVars, pickup_dates_cache, sink,
                   pickup_fetches, page_requests, acquired>>

\* process_and_write has returned: the worker sets the future's result.
Finish(a) ==
    /\ tpc[a] = "return"
    /\ tpc' = [tpc EXCEPT ![a] = "done"]
    /\ UNCHANGED <<t_fetched, t_pickup, t_page, t_items, t_rows, t_written>>
    /\ UNCHANGED <<dashVars, remoteVars, mainVars, pickup_dates_cache, lock,
                   sink, pickup_fetches, page_requests, acquired>>

Next ==
    \/ LoadLocations
    \/ LoadLocationsFail
    \/ CheckFile
    \/ ListPage
    \/ ListPageFail
    \/ OpenCsv
    \/ Submit
    \/ \E a \in Auctions : Collect(a)
    \/ \E a \in Auctions : CollectFailed(a)
    \/ Shutdown
    \/ Report
    \/ \E a \in Auctions : StartTask(a)
    \/ \E a \in Auctions : CheckCache(a)
    \/ \E a \in Auctions : FetchPickup(a)
    \/ \E a \in Auctions : FetchPickupFail(a)
    \/ \E a \in Auctions : StorePickup(a)
    \/ \E a \in Auctions : ReadPickup(a)
    \/ \E a \in Auctions : ItemsPage(a)
    \/ \E a \in Auctions : ItemsPageFail(a)
    \/ \E a \in Auctions : AcquireLock(a)
    \/ \E a \in Auctions : WriteRow(a)
    \/ \E a \in Auctions : ReleaseLock(a)
    \/ \E a \in Auctions : Finish(a)

Spec == Init /\ [][Next]_vars

SpecDrift == InitDrift /\ [][Next]_vars

SpecOneLoc == InitOneLoc /\ [][Next]_vars

(***************************************************************************)
(* Runs under fair scheduling in which every fetch returns: the main       *)
(* thread and every worker task take their next step when they can.  A     *)
(* write to the file may fail, and one resource may never serve an empty   *)
(* page.  Every auction has one item, on one page.                         *)
(***************************************************************************)
InitLive ==
    /\ remote_auctions = RemoteListing(NumAuctions)
    /\ remote_items = [a \in Auctions |-> << <<1>> >>]
    /\ remote_prices = RemotePrices
    /\ auction_location = [a \in Auctions |-> ListedLoc(a)]
    /\ remote_endless \in {{}, {0}, {1}}
    /\ csv_exists = FALSE
    /\ sink = <<>>
    /\ remote_stable = TRUE
    /\ InitLocal

\* The steps of the main thread when its fetches return.
MainNext ==
    \/ LoadLocations
    \/ CheckFile
    \/ ListPage
    \/ OpenCsv
    \/ Submit
    \/ \E a \in Auctions : Collect(a)
    \/ \E a \in Auctions : CollectFailed(a)
    \/ Shutdown
    \/ Report

\* The steps of the worker that runs process_and_write(a) when its fetches
\* return.
TaskNext(a) ==
    \/ StartTask(a)
    \/ CheckCache(a)
    \/ FetchPickup(a)
    \/ StorePickup(a)
    \/ ReadPickup(a)
    \/ ItemsPage(a)
    \/ AcquireLock(a)
    \/ WriteRow(a)
    \/ WriteRowFail(a)
    \/ ReleaseLock(a)
    \/ Finish(a)

NextLive == MainNext \/ \E a \in Auctions : TaskNext(a)

\* Fair scheduling of the main thread and of the pool's workers, used in its
\* weakest form: while some thread has a step to take, a step is taken.
Fairness == WF_vars(NextLive)

SpecLive == InitLive /\ [][NextLive]_vars /\ Fairness

(***************************************************************************)
(* The paginated loops on their own, over every remote page sequence.      *)
(***************************************************************************)
Pages == UNION {[1..k -> ItemIds] : k \in 0..MaxPageLen}
PageSeqs == UNION {[1..n -> Pages] : n \in 0..MaxPages}

\* Either main() is at its listing loop, or task 1 is at the loop of
\* get_all_items_for_auction; the endpoint serves any page sequence.
InitPage ==
    /\ \E P \in PageSeqs :
        /\ remote_auctions = P
        /\ remote_items = [a \in Auctions |-> P]
    /\ remote_prices = RemotePrices
    /\ auction_location = [a \in Auctions |-> ListedLoc(a)]
    /\ remote_endless = {}
    /\ remote_stable = TRUE
    /\ csv_exists = FALSE
    /\ sink = <<>>
    /\ \E loop \in {"listing", "items"} :
        /\ mainPc = IF loop = "listing" THEN "listing" ELSE "collect"
        /\ tpc = [a \in Auctions |->
                     IF loop = "items" /\ a = 1 THEN "items" ELSE "unsubmitted"]
        /\ futures = IF loop = "items" THEN <<1>> ELSE <<>>
        /\ all_auctions = futures
    /\ outcome = "running"
    /\ location_data = RemoteLocations
    /\ write_header = TRUE
    /\ page = ListFirstPage
    /\ collected = <<>>
    /\ total_items = 0
    /\ pickup_dates_cache = [l \in {5} |-> PickupAnswers(5)[1]]
    /\ lock = 0
    /\ t_fetched = [a \in Auctions |-> NoDates]
    /\ t_pickup = [a \in Auctions |->
                      IF tpc[a] = "items" THEN PickupAnswers(5)[1] ELSE NoDates]
    /\ t_page = [a \in Auctions |-> FirstPage]
    /\ t_items = [a \in Auctions |-> <<>>]
    /\ t_rows = [a \in Auctions |-> <<>>]
    /\ t_written = [a \in Auctions |-> 0]
    /\ pickup_fetches = [l \in LocIds |-> 0]
    /\ page_requests = [r \in Resources |-> <<>>]
    /\ acquired = <<>>
    /\ dashPc = "idle"
    /\ data = <<>>

NextPage ==
    \/ ListPage
    \/ ListPageFail
    \/ \E a \in Auctions : ItemsPage(a)
    \/ \E a \in Auctions : ItemsPageFail(a)

SpecPage == InitPage /\ [][NextPage]_vars

(***************************************************************************)
(* The dashboard: process_auction builds the rows of the DataFrame and     *)
(* process_data prepares it for display.                                   *)
(***************************************************************************)
\* The dict process_auction appends for one item.
DashRow(a, item) ==
    [kind |-> "row",
     auction_id |-> a,
     item_id |-> item,
     current_bid |-> ItemGet(item, "currentBid", 0),
     msrp |-> ItemGet(item, "msrp", 0),
     auction_location_nickname |-> LocNickname(AuctionLoc(a)),
     ratio_bid_to_msrp |->
         Ratio(ItemGet(item, "currentBid", 0), ItemGet(item, "msrp", 0))]

\* process_auction(a) returns its rows and scrape_bidfta_data puts them in
\* the DataFrame.
ProcessAuction(a) ==
    /\ dashPc = "scrape"
    /\ LET items == Flatten(NonEmptyPrefix(remote_items[a])) IN
        data' = [i \in 1..Len(items) |-> DashRow(a, items[i])]
    /\ dashPc' = "process"
    /\ UNCHANGED <<remoteVars, mainVars, taskVars, pickup_dates_cache, lock,
                   sink, pickup_fetches, page_requests, acquired>>

\* data['current_bid'] / data['msrp']: the division of two columns raises
\* nothing; a zero msrp gives inf or NaN, kept here as denominator 0.
ColumnDiv(current_bid, msrp) == <<current_bid, msrp>>

\* process_data(data): the ratio column is computed again from the columns
\* current_bid and msrp.
ProcessData ==
    /\ dashPc = "process"
    /\ data' = [i \in 1..Len(data) |->
                   [data[i] EXCEPT !.ratio_bid_to_msrp =
                       ColumnDiv(data[i].current_bid, data[i].msrp)]]
    /\ dashPc' = "display"
    /\ UNCHANGED <<remoteVars, mainVars, taskVars, pickup_dates_cache, lock,
                   sink, pickup_fetches, page_requests, acquired>>

(***************************************************************************)
(* The dashboard's scrape_bidfta_data: the tasks run process_auction, whose *)
(* cache check, fetch and store are inside "with lock".                    *)
(***************************************************************************)
scriptMain == <<mainPc, outcome, location_data, write_header, page,
                all_auctions, total_items>>

\* "if not all_auctions: return None", else every auction is submitted; a
\* task not yet submitted behaves as one that waits in the queue.
DashSubmit ==
    /\ dashPc = "listed"
    /\ IF Len(all_auctions) = 0
       THEN /\ dashPc' = "nodata"
            /\ UNCHANGED <<futures, tpc>>
       ELSE /\ dashPc' = "pool"
            /\ futures' = all_auctions
            /\ tpc' = [a \in Auctions |->
                          IF a \in SeqToSet(all_auctions) THEN "queued"
                          ELSE tpc[a]]
    /\ UNCHANGED <<data, collected, scriptMain>>
    /\ UNCHANGED <<t_fetched, t_pickup, t_page, t_items, t_rows, t_written>>
    /\ UNCHANGED <<remoteVars, pickup_dates_cache, lock, sink, pickup_fetches,
                   page_requests, acquired>>

\* A worker takes the work item of a and calls process_auction(a), which
\* comes to its "with lock".
DashStartTask(a) ==
    /\ dashPc \in {"pool", "shutdown"}
    /\ OldestQueued(a)
    /\ PoolHasIdleWorker
    /\ tpc' = [tpc EXCEPT ![a] = "d_lock"]
    /\ UNCHANGED <<t_fetched, t_pickup, t_page, t_items, t_rows, t_written>>
    /\ UNCHANGED <<dashVars, remoteVars, mainVars, pickup_dates_cache, lock,
                   sink, pickup_fetches, page_requests, acquired>>

\* "with lock:" is entered.
DashAcquireLock(a) ==
    /\ tpc[a] = "d_lock"
    /\ LockFree
    /\ lock' = a
    /\ acquired' = Append(acquired, a)
    /\ tpc' = [tpc EXCEPT ![a] = "d_check"]
    /\ UNCHANGED <<t_fetched, t_pickup, t_page, t_items, t_rows, t_written>>
    /\ UNCHANGED <<dashVars, remoteVars, mainVars, pickup_dates_cache, sink,
                   pickup_fetches, page_requests>>

\* "if loc_id not in pickup_dates_cache" under the lock; on a hit the with
\* block ends and the lock is released.
DashCheckCache(a) ==
    /\ tpc[a] = "d_check"
    /\ IF CacheMiss(AuctionLoc(a))
       THEN /\ tpc' = [tpc EXCEPT ![a] = "d_fetch"]
            /\ UNCHANGED lock
       ELSE /\ tpc' = [tpc EXCEPT ![a] = "d_items"]
            /\ lock' = 0
    /\ UNCHANGED <<t_fetched, t_pickup, t_page, t_items, t_rows, t_written>>
    /\ UNCHANGED <<dashVars, remoteVars, mainVars, pickup_dates_cache, sink,
                   pickup_fetches, page_requests, acquired>>

\* get_auction_pickup_dates returns under the lock, its value is stored and
\* the with block ends.
DashFetchPickup(a) ==
    /\ tpc[a] = "d_fetch"
    /\ \E v \in PickupResponses(AuctionLoc(a)) :
        /\ t_fetched' = [t_fetched EXCEPT ![a] = v]
        /\ pickup_dates_cache' = CachePut(pickup_dates_cache, AuctionLoc(a), v)
    /\ pickup_fetches' = [pickup_fetches EXCEPT ![AuctionLoc(a)] = @ + 1]
    /\ lock' = 0
    /\ tpc' = [tpc EXCEPT ![a] = "d_items"]
    /\ UNCHANGED <<t_pickup, t_page, t_items, t_rows, t_written>>
    /\ UNCHANGED <<dashVars, remoteVars, mainVars, sink, page_requests,
                   acquired>>

\* get_auction_pickup_dates raises under the lock: the with block releases
\* the lock and the exception leaves process_auction.
DashFetchPickupFail(a) ==
    /\ tpc[a] = "d_fetch"
    /\ lock' = 0
    /\ TaskRaise(a)
    /\ UNCHANGED <<t_fetched, t_pickup, t_page, t_items, t_rows, t_written>>
    /\ UNCHANGED <<dashVars, remoteVars, mainVars, pickup_dates_cache, sink,
                   pickup_fetches, page_requests, acquired>>

\* One pass of the loop of get_all_items_for_auction in process_auction; on
\* the empty page the rows are built and process_auction returns them.
DashItemsPage(a) ==
    /\ tpc[a] = "d_items"
    /\ WithinLoopBound(a, t_page[a])
    /\ LET items == Served(a, remote_items[a], t_page[a]) IN
        /\ page_requests' = [page_requests EXCEPT ![a] = Append(@, t_page[a])]
        /\ IF NoItems(items)
           THEN /\ t_rows' = [t_rows EXCEPT ![a] =
                                 [i \in 1..Len(t_items[a]) |->
                                     DashRow(a, t_items[a][i])]]
                /\ tpc' = [tpc EXCEPT ![a] = "done"]
                /\ UNCHANGED <<t_items, t_page>>
           ELSE /\ t_items' = [t_items EXCEPT ![a] = ExtendItems(@, items)]
                /\ t_page' = [t_page EXCEPT ![a] = @ + 1]
                /\ UNCHANGED <<t_rows, tpc>>
    /\ UNCHANGED <<t_fetched, t_pickup, t_written>>
    /\ UNCHANGED <<dashVars, remoteVars, mainVars, pickup_dates_cache, lock,
                   sink, pickup_fetches, acquired>>

\* get_items_by_page raises in process_auction.
DashItemsPageFail(a) ==
    /\ tpc[a] = "d_items"
    /\ WithinLoopBound(a, t_page[a])
    /\ page_requests' = [page_requests EXCEPT ![a] = Append(@, t_page[a])]
    /\ TaskRaise(a)
    /\ UNCHANGED <<t_fetched, t_pickup, t_page, t_items, t_rows, t_written>>
    /\ UNCHANGED <<dashVars, remoteVars, mainVars, pickup_dates_cache, lock,
                   sink, pickup_fetches, acquired>>

\* as_completed yields the future of a: all_items.extend(future.result()).
DashCollect(a) ==
    /\ dashPc = "pool"
    /\ a \in SeqToSet(futures) \ SeqToSet(collected)
    /\ tpc[a] = "done"
    /\ collected' = Append(collected, a)
    /\ data' = data \o t_rows[a]
    /\ UNCHANGED <<dashPc, futures, scriptMain>>
    /\ UNCHANGED <<remoteVars, taskVars, pickup_dates_cache, lock, sink,
                   pickup_fetches, page_requests, acquired>>

\* future.result() re-raises the exception of process_auction.
DashCollectFailed(a) ==
    /\ dashPc = "pool"
    /\ a \in SeqToSet(futures) \ SeqToSet(collected)
    /\ tpc[a] = "failed"
    /\ collected' = Append(collected, a)
    /\ dashPc' = "shutdown"
    /\ UNCHANGED <<data, futures, scriptMain>>
    /\ UNCHANGED <<remoteVars, taskVars, pickup_dates_cache, lock, sink,
                   pickup_fetches, page_requests, acquired>>

\* The executor's __exit__ has joined the workers and scrape_bidfta_data
\* raises.
DashShutdown ==
    /\ dashPc = "shutdown"
    /\ ShutdownWaited
    /\ dashPc' = "error"
    /\ UNCHANGED <<data, mainVars>>
    /\ UNCHANGED <<remoteVars, taskVars, pickup_dates_cache, lock, sink,
                   pickup_fetches, page_requests, acquired>>

\* "return pd.DataFrame(all_items) if all_items else None"
DashReturn ==
    /\ dashPc = "pool"
    /\ AllCollected
    /\ dashPc' = IF Len(data) = 0 THEN "nodata" ELSE "process"
    /\ UNCHANGED <<data, mainVars>>
    /\ UNCHANGED <<remoteVars, taskVars, pickup_dates_cache, lock, sink,
                   pickup_fetches, page_requests, acquired>>

\* scrape_bidfta_data has loaded the locations and listed the auctions.
InitDash ==
    /\ \E n \in 0..NumAuctions : remote_auctions = RemoteListing(n)
    /\ remote_items = [a \in Auctions |-> RemoteItems(a)]
    /\ remote_prices = RemotePrices
    /\ auction_location = [a \in Auctions |-> ListedLoc(a)]
    /\ remote_endless = {}
    /\ remote_stable = TRUE
    /\ csv_exists = FALSE
    /\ sink = <<>>
    /\ mainPc = "locations"
    /\ outcome = "running"
    /\ location_data = RemoteLocations
    /\ write_header = FALSE
    /\ page = ListFirstPage + Len(remote_auctions)
    /\ all_auctions = Flatten(remote_auctions)
    /\ futures = <<>>
    /\ collected = <<>>
    /\ total_items = 0
    /\ pickup_dates_cache = <<>>
    /\ lock = 0
    /\ tpc = [a \in Auctions |-> "unsubmitted"]
    /\ t_fetched = [a \in Auctions |-> NoDates]
    /\ t_pickup = [a \in Auctions |-> NoDates]
    /\ t_page = [a \in Auctions |-> FirstPage]
    /\ t_items = [a \in Auctions |-> <<>>]
    /\ t_rows = [a \in Auctions |-> <<>>]
    /\ t_written = [a \in Auctions |-> 0]
    /\ pickup_fetches = [l \in LocIds |-> 0]
    /\ page_requests = [r \in Resources |->
                           IF r = 0 THEN [i \in 1..(Len(remote_auctions) + 1) |-> i]
                           ELSE <<>>]
    /\ acquired = <<>>
    /\ dashPc = "listed"
    /\ data = <<>>

NextDash ==
    \/ DashSubmit
    \/ \E a \in Auctions : DashStartTask(a)
    \/ \E a \in Auctions : DashAcquireLock(a)
    \/ \E a \in Auctions : DashCheckCache(a)
    \/ \E a \in Auctions : DashFetchPickup(a)
    \/ \E a \in Auctions : DashFetchPickupFail(a)
    \/ \E a \in Auctions : DashItemsPage(a)
    \/ \E a \in Auctions : DashItemsPageFail(a)
    \/ \E a \in Auctions : DashCollect(a)
    \/ \E a \in Auctions : DashCollectFailed(a)
    \/ DashShutdown
    \/ DashReturn
    \/ ProcessData

SpecDash == InitDash /\ [][NextDash]_vars

(***************************************************************************)
(* Row building on its own, over every pair of item objects.               *)
(***************************************************************************)
Bids == 0..MaxBid
Msrps == (0 - 1)..MaxMsrp

\* The objects the item endpoint can serve for item i: currentBid and msrp
\* are optional keys.
ItemObjects(i) ==
    {[id |-> i, currentBid |-> b, msrp |-> m] : b \in Bids, m \in Msrps}
        \cup {[id |-> i, currentBid |-> b] : b \in Bids}
        \cup {[id |-> i, msrp |-> m] : m \in Msrps}
        \cup {[id |-> i]}

\* Auction 1 has items 1 and 2 on one page, with any item objects. Either
\* task 1 of main() is at the loop of get_all_items_for_auction, or the
\* dashboard is about to build the rows of auction 1.
InitRatio ==
    /\ remote_auctions = << <<1>> >>
    /\ remote_items = [a \in Auctions |-> << <<1, 2>> >>]
    /\ \E o1 \in ItemObjects(1) : \E o2 \in ItemObjects(2) :
           remote_prices = [i \in ItemIds |-> IF i = 1 THEN o1 ELSE o2]
    /\ auction_location = [a \in Auctions |-> ListedLoc(a)]
    /\ remote_endless = {}
    /\ remote_stable = TRUE
    /\ csv_exists = FALSE
    /\ sink = <<HeaderLine>>
    /\ mainPc = "collect"
    /\ dashPc \in {"idle", "scrape"}
    /\ tpc = [a \in Auctions |->
                 IF a = 1 /\ dashPc = "idle" THEN "items" ELSE "unsubmitted"]
    /\ futures = <<1>>
    /\ all_auctions = <<1>>
    /\ outcome = "running"
    /\ location_data = RemoteLocations
    /\ write_header = TRUE
    /\ page = ListFirstPage + 1
    /\ collected = <<>>
    /\ total_items = 0
    /\ pickup_dates_cache = [l \in {5} |-> PickupAnswers(5)[1]]
    /\ lock = 0
    /\ t_fetched = [a \in Auctions |->
                       IF a = 1 THEN PickupAnswers(5)[1] ELSE NoDates]
    /\ t_pickup = t_fetched
    /\ t_page = [a \in Auctions |-> FirstPage]
    /\ t_items = [a \in Auctions |-> <<>>]
    /\ t_rows = [a \in Auctions |-> <<>>]
    /\ t_written = [a \in Auctions |-> 0]
    /\ pickup_fetches = [l \in LocIds |-> IF l = 5 THEN 1 ELSE 0]
    /\ page_requests = [r \in Resources |->
                           IF r = 0 THEN <<1, 2>> ELSE <<>>]
    /\ acquired = <<>>
    /\ data = <<>>

NextRatio ==
    \/ \E a \in Auctions : ItemsPage(a)
    \/ \E a \in Auctions : ItemsPageFail(a)
    \/ ProcessAuction(1)
    \/ ProcessData

SpecRatio == InitRatio /\ [][NextRatio]_vars

(***************************************************************************)
(* Properties                                                              *)
(***************************************************************************)
\* The lines of the file that are rows of auction a.
RowsOf(a) ==
    {i \in 1..Len(sink) : sink[i].kind = "row" /\ sink[i].auction_id = a}

\* Some row of auction a is above some row of auction b in the file.
Precedes(a, b) == \E i \in RowsOf(a) : \E j \in RowsOf(b) : i < j

Pos(s, x) == CHOOSE i \in 1..Len(s) : s[i] = x

IsPrefix(s, t) == Len(s) <= Len(t) /\ SubSeq(t, 1, Len(s)) = s

OneTo(n) == [i \in 1..n |-> i]

\* The task of a has left fetch_auction_data with its rows.
HasRows(a) == tpc[a] \in {"lock", "write", "return", "done"}

\* The task of a has passed "pickup_dates = pickup_dates_cache[loc_id]".
Resolved(a) == tpc[a] \in {"items", "lock", "write", "return", "done"}

\* C1: for every location id the pickup-date fetch returns at most once in a
\* run, under every interleaving of the worker tasks.
C1_AtMostOneFetch == \A l \in LocIds : pickup_fetches[l] <= 1

\* C2: when a paginated loop has ended on an empty page, its result is the
\* concatenation of the non-empty pages served before it, in order, and it
\* has requested pages 1..k+1 where k is the number of those pages; for the
\* listing loop of main and for get_all_items_for_auction.
C2_PaginatedFetch ==
    /\ mainPc = "open" =>
        /\ all_auctions = Flatten(NonEmptyPrefix(remote_auctions))
        /\ page_requests[0] = OneTo(Len(NonEmptyPrefix(remote_auctions)) + 1)
    /\ \A a \in Auctions : tpc[a] = "lock" =>
        /\ t_items[a] = Flatten(NonEmptyPrefix(remote_items[a]))
        /\ page_requests[a] = OneTo(Len(NonEmptyPrefix(remote_items[a])) + 1)

\* A loop over a short page followed by a fuller one and then the empty page.
C2_Witness ==
    /\ tpc[1] = "lock"
    /\ Len(page_requests[1]) = 3
    /\ Len(remote_items[1][1]) < Len(remote_items[1][2])
    /\ Len(t_items[1]) = 3

\* C3: at most one task is inside the writerow loop of process_and_write.
C3_SingleWriter == Cardinality({a \in Auctions : tpc[a] = "write"}) <= 1

\* One task is between two rows while another waits for the lock.
C3_Witness ==
    \E a, b \in Auctions :
        /\ tpc[a] = "write"
        /\ t_written[a] = 1
        /\ ~WriteLoopDone(a)
        /\ tpc[b] = "lock"

\* C4: all tasks that resolved the pickup dates of one location id hold the
\* same value.
C4_SamePickupValue ==
    \A a, b \in Auctions :
        (Resolved(a) /\ Resolved(b) /\ AuctionLoc(a) = AuctionLoc(b))
            => t_pickup[a] = t_pickup[b]

NoFetchFailed == outcome # "error" /\ \A a \in Auctions : tpc[a] # "failed"

AllTasksCompleted ==
    /\ mainPc \in {"collect", "done"}
    /\ \A a \in SeqToSet(all_auctions) : tpc[a] = "done"

ExpectedItems(a) == Flatten(NonEmptyPrefix(remote_items[a]))

\* C5: in a run without a failed fetch, once all tasks have completed, the
\* file holds exactly one row for every item of every listed auction and no
\* other row.
C5_EveryRowOnce ==
    (NoFetchFailed /\ AllTasksCompleted) =>
        /\ \A a \in SeqToSet(all_auctions) :
            \A item \in SeqToSet(ExpectedItems(a)) :
                Cardinality({i \in RowsOf(a) : sink[i].item_id = item}) = 1
        /\ \A i \in 1..Len(sink) : sink[i].kind = "row" =>
            /\ sink[i].auction_id \in SeqToSet(all_auctions)
            /\ sink[i].item_id \in SeqToSet(ExpectedItems(sink[i].auction_id))

\* A successful run over several auctions.
C5_Witness ==
    /\ outcome = "ok"
    /\ Len(all_auctions) >= 2
    /\ Len(sink) >= 4

\* C6: the rows returned by fetch_auction_data are one per item returned by
\* the paginated item fetch, in the same order.
C6_RowPerItem ==
    \A a \in Auctions : HasRows(a) =>
        /\ Len(t_rows[a]) = Len(t_items[a])
        /\ \A i \in 1..Len(t_rows[a]) :
            /\ t_rows[a][i].auction_id = a
            /\ t_rows[a][i].item_id = t_items[a][i]

\* Rows were built from items that came on more than one page.
C6_Witness ==
    /\ HasRows(1)
    /\ Len(t_rows[1]) >= 3
    /\ Len(page_requests[1]) >= 3

\* C7: whenever rows of A are above rows of B in the file, the result of A
\* was collected by the as_completed loop before the result of B.
C7_SinkFollowsCollection ==
    \A a, b \in Auctions :
        (a # b /\ Precedes(a, b) /\ b \in SeqToSet(collected)) =>
            /\ a \in SeqToSet(collected)
            /\ Pos(collected, a) < Pos(collected, b)

\* C7 as amended: whenever rows of A are above rows of B in the file, A took
\* the lock before B; and all rows of a task are in the file when its result
\* is collected.
C7_SinkFollowsLockOrder ==
    /\ \A a, b \in Auctions :
        (a # b /\ Precedes(a, b)) =>
            /\ a \in SeqToSet(acquired)
            /\ b \in SeqToSet(acquired)
            /\ Pos(acquired, a) < Pos(acquired, b)
    /\ \A a \in SeqToSet(collected) :
        tpc[a] = "done" => Cardinality(RowsOf(a)) = Len(t_rows[a])

\* The rows of one task are above those of another that was collected first.
C7_Witness ==
    \E a, b \in SeqToSet(collected) :
        /\ Precedes(a, b)
        /\ Pos(collected, b) < Pos(collected, a)

\* The exception of a task has left the result-collection loop.
ErrorSurfaced == mainPc = "shutdown" \/ outcome = "error"

\* C8: after the first error has been surfaced no task starts and no row is
\* appended to the file.
C8_FailFast ==
    [][ErrorSurfaced =>
        /\ sink' = sink
        /\ \A a \in Auctions : tpc[a] = "queued" => tpc'[a] = "queued"]_vars

\* C8 as amended: after the first error has been surfaced no result is
\* collected and no total is reported, and main ends with the error only
\* when every submitted task has run.
C8_ErrorPropagates ==
    /\ [][ErrorSurfaced =>
            /\ collected' = collected
            /\ total_items' = total_items
            /\ outcome' # "ok"]_vars
    /\ [](outcome = "error" => \A a \in SeqToSet(futures) : Finished(a))

\* The error is out of the loop while one task writes and another is queued.
C8_Witness ==
    /\ mainPc = "shutdown"
    /\ \E a \in Auctions : tpc[a] = "queued"
    /\ \E a \in Auctions : tpc[a] = "write"

\* C9: a run in which a task failed never reports its total, and the file
\* only grows: its content is a prefix of its content at any later time.
C9_ErrorKeepsSink ==
    /\ []((\E a \in Auctions : tpc[a] = "failed") => outcome # "ok")
    /\ []((mainPc = "done" /\ \E a \in Auctions : tpc[a] = "failed")
            => outcome = "error")
    /\ [][IsPrefix(sink, sink')]_vars

\* A run that ended with the error of a task and rows in the file.
C9_Witness ==
    /\ outcome = "error"
    /\ \E a \in Auctions : tpc[a] = "failed"
    /\ \E i \in 1..Len(sink) : sink[i].kind = "row"

\* C10: at most PoolSize tasks execute at a time.
C10_PoolBound == Cardinality(RunningTasks) <= PoolSize

\* Every worker is busy and a submitted task waits in the queue.
C10_Witness ==
    /\ Cardinality(RunningTasks) = PoolSize
    /\ \E a \in Auctions : tpc[a] = "queued"

\* The number of tasks submitted for auction a.
TimesSubmitted(a) == Cardinality({i \in 1..Len(futures) : futures[i] = a})

\* The list comprehension of submits has run to its end.
SubmitDone ==
    \/ mainPc \in {"collect", "shutdown"}
    \/ outcome = "ok"
    \/ collected # <<>>

\* C11: the tasks submitted are one per auction of the concatenated listing:
\* the futures follow all_auctions entry by entry, no auction is submitted
\* twice or enters process_and_write twice, an auction that is not listed
\* has no task, and once the submits are done there are as many futures as
\* auctions on the pages before the first empty listing page.
C11_OneTaskPerAuction ==
    /\ IsPrefix(futures, all_auctions)
    /\ \A a \in Auctions :
        /\ TimesSubmitted(a) <= 1
        /\ tpc[a] # "unsubmitted" <=> TimesSubmitted(a) = 1
        /\ Cardinality({i \in 1..Len(acquired) : acquired[i] = a}) <= 1
    /\ SubmitDone =>
        /\ futures = Flatten(NonEmptyPrefix(remote_auctions))
        /\ Len(futures) = Len(all_auctions)
        /\ \A a \in SeqToSet(all_auctions) : TimesSubmitted(a) = 1

\* Every auction of a listing of two pages has its task.
C11_Witness ==
    /\ mainPc = "collect"
    /\ Len(NonEmptyPrefix(remote_auctions)) >= 2
    /\ Len(futures) = Len(Flatten(remote_auctions))
    /\ Len(futures) >= 3
    /\ \E a \in Auctions : tpc[a] = "done"

RECURSIVE SumRowCounts(_)
\* The sum of the row counts returned by the tasks of the auctions in s.
SumRowCounts(s) ==
    IF Len(s) = 0 THEN 0 ELSE Len(t_rows[Head(s)]) + SumRowCounts(Tail(s))

\* The rows of the file.
SinkRows == {i \in 1..Len(sink) : sink[i].kind = "row"}

\* main has printed the total.
TotalPrinted == mainPc = "done" /\ outcome = "ok"

\* C12: the running total is the sum of the row counts of the results
\* collected so far; when the total is printed every submitted task has
\* completed and was collected, and the total is the sum of the row counts of
\* all tasks, which is the number of rows in the file.
C12_TotalAfterAllTasks ==
    /\ total_items = SumRowCounts(collected)
    /\ TotalPrinted =>
        /\ \A a \in SeqToSet(futures) : tpc[a] = "done"
        /\ SeqToSet(collected) = SeqToSet(futures)
        /\ total_items = SumRowCounts(futures)
        /\ total_items = Cardinality(SinkRows)

\* The total of a run of three tasks is printed.
C12_Witness ==
    /\ TotalPrinted
    /\ Len(futures) >= 3
    /\ total_items >= 4

\* Some per-auction work has begun: a task was submitted, or an item page or
\* a pickup-date fetch was requested.
FanOutBegun ==
    \/ \E a \in Auctions : tpc[a] # "unsubmitted"
    \/ \E a \in Auctions : page_requests[a] # <<>>
    \/ \E l \in LocIds : pickup_fetches[l] > 0
    \/ pickup_dates_cache # <<>>

\* The listing loop has requested its empty page, after every page before it.
ListingEnded ==
    /\ page_requests[0] # <<>>
    /\ page_requests[0] = OneTo(Len(page_requests[0]))
    /\ PageAt(remote_auctions, Len(page_requests[0])) = <<>>
    /\ all_auctions = Flatten(NonEmptyPrefix(remote_auctions))

\* main loads the locations, looks for the file or lists the auctions.
BeforeOpen == mainPc \in {"locations", "check_file", "listing"}

\* C13: once any per-auction work has begun, the location map is loaded, the
\* listing loop has reached its empty page and main is past both; and while
\* main loads the locations or lists the auctions, no task changes state and
\* no item-page or pickup-date request is issued.
C13_ListingPrecedesFanOut ==
    /\ [](FanOutBegun =>
            /\ location_data = RemoteLocations
            /\ ListingEnded
            /\ mainPc \notin {"locations", "check_file", "listing", "open"})
    /\ [][BeforeOpen =>
            /\ tpc' = tpc
            /\ pickup_fetches' = pickup_fetches
            /\ \A a \in Auctions : page_requests[a] = page_requests'[a] ]_vars

\* A task fetches pickup dates after a listing of two pages and its empty
\* page.
C13_Witness ==
    /\ \E a \in Auctions : tpc[a] = "fetch"
    /\ Len(page_requests[0]) >= 3
    /\ location_data = RemoteLocations

\* The ratio of row r follows the rule: a quotient that exists, 0 when msrp
\* is not positive, and current_bid / msrp otherwise.
RatioRule(r) ==
    LET q == r.ratio_bid_to_msrp IN
        /\ q[2] # 0
        /\ IF r.msrp <= 0 THEN q[1] = 0
           ELSE q[1] * r.msrp = r.current_bid * q[2]

\* C14: every row built by fetch_auction_data and every row of the
\* dashboard's data has ratio_bid_to_msrp = 0 when msrp <= 0 and
\* current_bid / msrp when msrp > 0, and no division by zero takes place.
C14_RatioRule ==
    /\ \A a \in Auctions : \A i \in 1..Len(t_rows[a]) : RatioRule(t_rows[a][i])
    /\ \A i \in 1..Len(data) : RatioRule(data[i])

\* The task of a has failed in get_all_items_for_auction.
PageFetchFailed(a) == tpc[a] = "failed" /\ page_requests[a] # <<>>

\* C15: a pass of the item loop that requests a page either goes on to the
\* next page, ends the loop, or fails the task; the pages requested are
\* 1, 2, ... without a repeat; and a task that failed in the loop stays
\* failed, requests no page any more, returns no rows and has no row in the
\* file.
C15_PageFailurePropagates ==
    /\ [](\A a \in Auctions :
            /\ page_requests[a] = OneTo(Len(page_requests[a]))
            /\ PageFetchFailed(a) => (t_rows[a] = <<>> /\ RowsOf(a) = {}))
    /\ [][\A a \in Auctions :
            /\ page_requests'[a] # page_requests[a] =>
                \/ tpc'[a] = "items" /\ t_page'[a] = t_page[a] + 1
                \/ tpc'[a] \in {"lock", "failed"}
            /\ PageFetchFailed(a) =>
                /\ tpc'[a] = "failed"
                /\ page_requests'[a] = page_requests[a]
                /\ t_rows'[a] = t_rows[a]]_vars

\* The second page of an auction failed after its first page gave an item.
C15_Witness ==
    \E a \in Auctions :
        /\ PageFetchFailed(a)
        /\ Len(page_requests[a]) = 2
        /\ Len(t_items[a]) = 1
        /\ mainPc = "done"
        /\ outcome = "error"

\* The location id of auction a is not a key of the location map.
LocationMissing(a) == AuctionLoc(a) \notin DOMAIN location_data

\* C16: a task whose auction's location id is missing from the location map
\* does not fail for that: fetch_auction_data returns one row per item of
\* the auction, as for a known location, and the five location fields of
\* each row are empty strings.
C16_MissingLocation ==
    \A a \in Auctions : (HasRows(a) /\ LocationMissing(a)) =>
        /\ Len(t_rows[a]) = Len(ExpectedItems(a))
        /\ \A i \in 1..Len(t_rows[a]) :
            /\ t_rows[a][i].item_id = ExpectedItems(a)[i]
            /\ t_rows[a][i].auction_location_nickname = ""
            /\ t_rows[a][i].auction_location_address = ""
            /\ t_rows[a][i].auction_location_city = ""
            /\ t_rows[a][i].auction_location_state = ""
            /\ t_rows[a][i].auction_location_zip = ""

\* The task of an auction with an unknown location has written its row,
\* next to a task of an auction with a known location.
C16_Witness ==
    \E a, b \in Auctions :
        /\ LocationMissing(a)
        /\ tpc[a] = "done"
        /\ RowsOf(a) # {}
        /\ ~LocationMissing(b)
        /\ tpc[b] = "done"
        /\ t_rows[b][1].auction_location_city = "Louisville"

\* The auctions of the listing.
ListedAuctions == SeqToSet(Flatten(NonEmptyPrefix(remote_auctions)))

\* The rows a run owes to the remote data: one per item of every listed
\* auction, with the pickup dates the endpoint gives for its location.
ExpectedRows ==
    UNION {{Row(a, item, PickupAnswers(AuctionLoc(a))[1]) :
               item \in SeqToSet(ExpectedItems(a))} : a \in ListedAuctions}

\* C17: a complete run on a fresh file against unchanged remote data leaves
\* in the file the header and exactly one copy of each row owed to the
\* remote data, whatever the interleaving of its tasks: two such runs
\* differ at most by the order of the rows.
C17_SameRowsEveryRun ==
    (TotalPrinted /\ ~csv_exists) =>
        /\ location_data = RemoteLocations
        /\ sink[1] = HeaderLine
        /\ Len(sink) = 1 + Cardinality(ExpectedRows)
        /\ \A r \in ExpectedRows :
            Cardinality({i \in SinkRows : sink[i] = r}) = 1

\* A complete run in which two tasks fetched the pickup dates of one
\* location and the rows were not written in submission order.
C17_Witness ==
    /\ TotalPrinted
    /\ ~csv_exists
    /\ Len(sink) >= 6
    /\ pickup_fetches[5] = 2
    /\ \E a, b \in Auctions : Precedes(b, a) /\ Pos(futures, a) < Pos(futures, b)

\* The loop of get_all_items_for_auction(a) has ended on its empty page.
ItemLoopEnded(a) == HasRows(a)

\* C18: the item pages of an auction are requested in the order 1, 2, 3, ...
\* each once; every page before the last requested one was served
\* non-empty, however short; while the loop runs its next page follows a
\* non-empty page; the loop ends on an empty page only, and after that page
\* the task requests no page.
C18_SequentialPages ==
    /\ [](\A a \in Auctions :
            LET n == Len(page_requests[a]) IN
                /\ page_requests[a] = OneTo(n)
                /\ \A i \in 1..(n - 1) : PageAt(remote_items[a], i) # <<>>
                /\ tpc[a] = "items" =>
                    /\ t_page[a] = n + 1
                    /\ n >= 1 => PageAt(remote_items[a], n) # <<>>
                /\ ItemLoopEnded(a) =>
                    /\ n >= 1
                    /\ PageAt(remote_items[a], n) = <<>>)
    /\ [][\A a \in Auctions :
            /\ Len(page_requests'[a]) <= Len(page_requests[a]) + 1
            /\ ItemLoopEnded(a) => page_requests'[a] = page_requests[a]]_vars

\* Two short pages in a row: the loop is about to request page 3.
C18_Witness ==
    /\ tpc[1] = "items"
    /\ page_requests[1] = <<1, 2>>
    /\ Len(remote_items[1][1]) = 1
    /\ Len(remote_items[1][2]) = 1
    /\ t_page[1] = 3

\* Page 1 of the auction listing is empty.
EmptyFirstPage == PageAt(remote_auctions, 1) = <<>>

\* main is past its listing loop and has not raised.
ListingPassed ==
    /\ mainPc \in {"open", "submit", "collect", "shutdown", "done"}
    /\ outcome # "error"

\* C19: when page 1 of the listing is empty, the only listing request is
\* the one for page 1, no task is submitted, no item page and no pickup
\* dates are fetched, the file gets no row, the total stays 0, and once the
\* listing has returned main cannot raise: it ends with the total 0 printed.
C19_EmptyListing ==
    /\ [](EmptyFirstPage =>
            /\ page_requests[0] \in {<<>>, <<1>>}
            /\ ListingPassed => page_requests[0] = <<1>>
            /\ futures = <<>>
            /\ \A a \in Auctions :
                tpc[a] = "unsubmitted" /\ page_requests[a] = <<>>
            /\ \A l \in LocIds : pickup_fetches[l] = 0
            /\ SinkRows = {}
            /\ total_items = 0
            /\ mainPc \notin {"submit", "shutdown"})
    /\ [][(EmptyFirstPage /\ ListingPassed) => outcome' # "error"]_vars

\* The run over an empty listing has printed its total.
C19_Witness ==
    /\ EmptyFirstPage
    /\ TotalPrinted
    /\ total_items = 0
    /\ page_requests[0] = <<1>>
    /\ sink = <<HeaderLine>>

\* The header lines of the file.
HeaderLines == {i \in 1..Len(sink) : sink[i].kind = "header"}

\* main has passed "with open(csv_filename, 'a')" and its writeheader.
FileOpened ==
    \/ mainPc \in {"submit", "collect", "shutdown"}
    \/ TotalPrinted
    \/ futures # <<>>

\* C20: the file never holds more than one header; a file that existed
\* before the run gets none; a file that was absent has the header as its
\* first line from the moment it is opened, so above every row; and no row
\* is written before the file is opened.
C20_HeaderOnce ==
    /\ Cardinality(HeaderLines) <= 1
    /\ csv_exists => HeaderLines = {}
    /\ (~csv_exists /\ FileOpened) => HeaderLines = {1}
    /\ ~csv_exists => \A i \in SinkRows : \E h \in HeaderLines : h < i
    /\ SinkRows # {} => FileOpened

\* In a new file the header is above the rows of two tasks.
C20_Witness ==
    /\ ~csv_exists
    /\ Len(sink) >= 3
    /\ sink[1] = HeaderLine
    /\ \E a, b \in Auctions : a # b /\ RowsOf(a) # {} /\ RowsOf(b) # {}
    /\ \E a \in Auctions : tpc[a] = "write"

\* A step changes the location map.
LocationsChange == location_data' # location_data

\* A step of a worker task.
TaskStep == tpc' # tpc /\ \E a \in Auctions : tpc[a] \notin {"unsubmitted"}

\* C21: the location map changes only in the load step of main, which no
\* task step shares; from the first submit on it is the loaded map, and the
\* location fields of every row built are those of that map.
C21_LocationsReadOnly ==
    /\ [][LocationsChange =>
            (mainPc = "locations" /\ mainPc' = "check_file" /\ ~TaskStep)]_vars
    /\ []((\E a \in Auctions : tpc[a] # "unsubmitted") =>
            location_data = RemoteLocations)
    /\ [](\A a \in Auctions : \A i \in 1..Len(t_rows[a]) :
            t_rows[a][i].auction_location_nickname =
                IF AuctionLoc(a) \in DOMAIN RemoteLocations
                THEN RemoteLocations[AuctionLoc(a)].nickName ELSE "")

\* Tasks of a known and of an unknown location have looked up the map.
C21_Witness ==
    /\ \E a \in Auctions : HasRows(a) /\ LocationMissing(a)
    /\ \E a \in Auctions : HasRows(a) /\ ~LocationMissing(a)
    /\ \E a \in Auctions : tpc[a] = "items"
    /\ location_data = RemoteLocations

\* The values the pickup-date endpoint returns whole for location loc.
CompleteDates(loc) ==
    {PickupAnswers(loc)[i] : i \in 1..Len(PickupAnswers(loc))}

\* C22: a key of the pickup-date cache is never removed and its value is
\* always one the endpoint returned whole; a task that is at the read of its
\* cache entry finds its key present, and the value a task has read is such
\* a whole value.
C22_NoEviction ==
    /\ [][\A l \in LocIds :
            l \in DOMAIN pickup_dates_cache =>
                l \in DOMAIN pickup_dates_cache']_vars
    /\ [](\A l \in DOMAIN pickup_dates_cache :
            pickup_dates_cache[l] \in CompleteDates(l))
    /\ [](\A a \in Auctions :
            /\ tpc[a] = "read" => AuctionLoc(a) \in DOMAIN pickup_dates_cache
            /\ Resolved(a) => t_pickup[a] \in CompleteDates(AuctionLoc(a)))

\* A task is at the read of its entry after two tasks stored its key and a
\* task of another location stored its own.
C22_Witness ==
    /\ \E a \in Auctions : tpc[a] = "read" /\ pickup_fetches[AuctionLoc(a)] = 2
    /\ DOMAIN pickup_dates_cache = LocIds

\* The pickup-date request of the dashboard task of a is in flight.
DashInFlight(a) == tpc[a] = "d_fetch"

\* C23: in process_auction a task that checks the cache or fetches holds
\* the lock, so no two pickup-date requests are in flight together, and for
\* every location id at most one fetch returns in a run.
C23_LockedCacheOneFetch ==
    /\ \A a \in Auctions : tpc[a] \in {"d_check", "d_fetch"} => lock = a
    /\ \A a, b \in Auctions :
        (a # b /\ DashInFlight(a)) => ~DashInFlight(b)
    /\ \A l \in LocIds : pickup_fetches[l] <= 1

\* One task fetches the dates of a location while another task of the same
\* location waits for the lock.
C23_Witness ==
    \E a, b \in Auctions :
        /\ a # b
        /\ AuctionLoc(a) = AuctionLoc(b)
        /\ DashInFlight(a)
        /\ tpc[b] = "d_lock"

\* C24: in the file the rows of one auction are one block: between two rows
\* of an auction there is no header and no row of another auction.
C24_ContiguousRows ==
    \A a \in Auctions : \A i, j \in RowsOf(a) :
        \A k \in i..j : k \in RowsOf(a)

\* Both rows of one auction are in the file and a second task is between
\* its two rows while a third waits for the lock.
C24_Witness ==
    \E a, b, c \in Auctions :
        /\ Cardinality(RowsOf(a)) = 2
        /\ tpc[b] = "write"
        /\ Cardinality(RowsOf(b)) = 1
        /\ Len(t_rows[b]) = 2
        /\ tpc[c] = "lock"

\* The listed auctions whose locationId is l.
AuctionsAt(l) == {a \in ListedAuctions : AuctionLoc(a) = l}

\* The pickup-date fetches for l that returned or are in flight.
FetchesFor(l) ==
    pickup_fetches[l]
        + Cardinality({a \in Auctions : tpc[a] = "fetch" /\ AuctionLoc(a) = l})

Min(x, y) == IF x <= y THEN x ELSE y

\* C25: while no task has failed, the pickup-date fetches for a location id
\* number at most the auctions of that location and at most the pool size;
\* and a task goes from the cache check to the fetch only while its key is
\* not stored.
C25_FetchesBounded ==
    /\ []((\A a \in Auctions : tpc[a] # "failed") =>
            \A l \in LocIds :
                FetchesFor(l) <= Min(Cardinality(AuctionsAt(l)), PoolSize))
    /\ [][\A a \in Auctions :
            (tpc[a] = "check" /\ tpc'[a] = "fetch") =>
                AuctionLoc(a) \notin DOMAIN pickup_dates_cache]_vars

\* With more auctions of location 5 than workers, as many fetches as
\* workers have returned and a later task has found the key stored.
C25_Witness ==
    /\ Cardinality(AuctionsAt(5)) > PoolSize
    /\ pickup_fetches[5] = PoolSize
    /\ \A a \in Auctions : tpc[a] # "failed"
    /\ \E a \in Auctions : tpc[a] = "read" /\ t_fetched[a] = NoDates

\* The pickup-date fetch of the task of a raises in this step.
FetchFailsStep(a) == tpc[a] \in {"fetch", "d_fetch"} /\ tpc'[a] = "failed"

\* The task of a leaves its cache check in this step with its key absent.
ChecksAbsentStep(a) ==
    /\ tpc[a] \in {"check", "d_check"}
    /\ tpc'[a] # tpc[a]
    /\ AuctionLoc(a) \notin DOMAIN pickup_dates_cache

\* C26: a step in which a pickup-date fetch raises leaves the cache as it
\* was; a key is in the cache only after a fetch for it returned, with the
\* whole value of a returned fetch; and a task that finds its key absent
\* goes on to fetch it.
C26_FailedFetchKeepsCache ==
    /\ [][\A a \in Auctions :
            FetchFailsStep(a) => pickup_dates_cache' = pickup_dates_cache]_vars
    /\ [][\A a \in Auctions :
            ChecksAbsentStep(a) => tpc'[a] \in {"fetch", "d_fetch"}]_vars
    /\ [](\A l \in DOMAIN pickup_dates_cache :
            /\ pickup_fetches[l] >= 1
            /\ pickup_dates_cache[l] \in CompleteDates(l))

\* The fetches of the first two tasks failed; the third task, started
\* later for the same location, has fetched the dates again.
C26_Witness ==
    /\ \A a \in {1, 2} : tpc[a] = "failed" /\ page_requests[a] = <<>>
    /\ AuctionLoc(1) = AuctionLoc(3)
    /\ AuctionLoc(2) = AuctionLoc(3)
    /\ tpc[3] = "store"
    /\ pickup_fetches[AuctionLoc(3)] = 1
    /\ pickup_dates_cache = <<>>

\* Every paginated resource serves an empty page at some point.
AllResourcesEnd == remote_endless = {}

\* Every listed auction has been submitted and its task has finished.
AllTasksFinished ==
    /\ Len(futures) = NumAuctions
    /\ \A a \in Auctions : Finished(a)

\* C27: when every fetch returns, under fair scheduling the lock, once
\* held, is released again, also by a task that fails while it holds it;
\* if every paginated resource ends with an empty page, every submitted
\* task finishes and main ends, with the total printed unless a task failed.  A
\* loop over a resource that never serves an empty page never ends: main
\* never leaves the listing loop, or the task never gets to its rows and
\* the total is never printed.
C27_Termination ==
    /\ []<>(lock = 0)
    /\ []<>(AllResourcesEnd => mainPc = "done" /\ AllTasksFinished)
    /\ [](AllResourcesEnd /\ mainPc = "done" =>
            \/ outcome = "ok"
            \/ \E a \in Auctions : tpc[a] = "failed")
    /\ [](0 \in remote_endless =>
            mainPc \in {"locations", "check_file", "listing"})
    /\ [](\A a \in Auctions : a \in remote_endless =>
            /\ ~HasRows(a)
            /\ ~Finished(a)
            /\ outcome # "ok")

\* C27 as stated: as C27_Termination, but with the total reported in every
\* run whose paginated resources all end, also when a task failed while it
\* held the lock.
C27_AlwaysReports ==
    /\ []<>(lock = 0)
    /\ []<>(AllResourcesEnd =>
            mainPc = "done" /\ AllTasksFinished /\ outcome = "ok")

\* A task has failed while it held the lock, and a task that took the lock
\* after it has completed.
C27_Witness ==
    \E a, b \in SeqToSet(acquired) :
        /\ tpc[a] = "failed"
        /\ tpc[b] = "done"
        /\ Pos(acquired, a) < Pos(acquired, b)
        /\ mainPc = "done"
====
